---- MODULE Spec2Model ----
(***************************************************************************)
(* Model of the kvs log-structured key-value store (src/src/kv.rs).        *)
(*                                                                         *)
(* The directory is a map from generation number to the bytes of the file  *)
(* <gen>.log.  Bytes are one-character strings.  Records are the JSON text *)
(* serde_json produces for the Command enum.  The store keeps a reader     *)
(* fleet (generation -> reader position), one append writer, the key index *)
(* and the uncompacted counter.                                            *)
(***************************************************************************)
EXTENDS Integers, Sequences, FiniteSets, TLC

\* ------------------------------------------------------------------------
\* Bounds of the model
\* ------------------------------------------------------------------------
MaxMutations == 3
MaxOpens == 2
MidPad == 31
HugePad == 98
CrashOpens == 3
MaxCrashes == 1

\* ------------------------------------------------------------------------
\* Program constants
\* ------------------------------------------------------------------------
COMPACTION_THRESHOLD == 128

\* ------------------------------------------------------------------------
\* Inputs: keys and values are sequences of characters
\* ------------------------------------------------------------------------
Q == "\""
BS == "\\"

Keys == { <<"a">>, <<"b", "b">> }

\* a value holding the characters the codec escapes or delimits with; with
\* key "a" its record is 64 bytes long, half the compaction threshold
MidValue == <<Q, "}">> \o [i \in 1..MidPad |-> "y"]

\* a value whose record alone is longer than the compaction threshold
HugeValue == <<BS>> \o [i \in 1..HugePad |-> "z"]

Values == { MidValue, HugeValue }

\* ------------------------------------------------------------------------
\* Command and its JSON codec (serde_json with the derived Serialize /
\* Deserialize of the externally tagged enum)
\* ------------------------------------------------------------------------
CommandSet(key, value) == [type |-> "Set", key |-> key, value |-> value]

CommandRemove(key) == [type |-> "Remove", key |-> key]

SetPrefix == <<"{", Q, "S", "e", "t", Q, ":", "{", Q, "k", "e", "y", Q, ":", Q>>

RemovePrefix ==
    <<"{", Q, "R", "e", "m", "o", "v", "e", Q, ":", "{", Q, "k", "e", "y", Q, ":", Q>>

ValueInfix == <<",", Q, "v", "a", "l", "u", "e", Q, ":", Q>>

CloseBraces == <<"}", "}">>

\* the JSON string escape: a backslash before every quote and backslash; a
\* run without either is written as it is (evaluated by halving, which
\* keeps the evaluation shallow)
RECURSIVE Escape(_)
Escape(s) ==
    IF \A i \in DOMAIN s : s[i] # Q /\ s[i] # BS THEN s
    ELSE IF Len(s) = 1
    THEN (IF s[1] = Q \/ s[1] = BS THEN <<BS, s[1]>> ELSE s)
    ELSE Escape(SubSeq(s, 1, Len(s) \div 2))
            \o Escape(SubSeq(s, Len(s) \div 2 + 1, Len(s)))

\* the number of consecutive backslashes of b[p..q-1] that end right before q
RECURSIVE BackslashRun(_, _, _)
BackslashRun(b, p, q) ==
    IF q - 1 < p \/ b[q - 1] # BS THEN 0
    ELSE 1 + BackslashRun(b, p, q - 1)

\* s[i] is a backslash that escapes the character after it
EscapingAt(s, i) == s[i] = BS /\ BackslashRun(s, 1, i) % 2 = 0

\* where to halve an escaped string body: never between a backslash and the
\* character it escapes
SplitPoint(s) ==
    IF EscapingAt(s, Len(s) \div 2) THEN Len(s) \div 2 + 1 ELSE Len(s) \div 2

\* the inverse of Escape on a string body; a run without a backslash is
\* taken as it is
RECURSIVE Unescape(_)
RECURSIVE UnescapeHalves(_, _)
Unescape(s) ==
    IF \A i \in DOMAIN s : s[i] # BS THEN s
    ELSE IF Len(s) <= 1 THEN s
    ELSE IF Len(s) = 2 /\ s[1] = BS THEN <<s[2]>>
    ELSE UnescapeHalves(s, SplitPoint(s))

UnescapeHalves(s, m) ==
    Unescape(SubSeq(s, 1, m)) \o Unescape(SubSeq(s, m + 1, Len(s)))

Encode(cmd) ==
    IF cmd.type = "Set"
    THEN SetPrefix \o Escape(cmd.key) \o <<Q>> \o ValueInfix
             \o Escape(cmd.value) \o <<Q>> \o CloseBraces
    ELSE RemovePrefix \o Escape(cmd.key) \o <<Q>> \o CloseBraces

\* TRUE when the literal lit occurs in b at the 1-based index p
MatchAt(b, p, lit) ==
    /\ p + Len(lit) - 1 <= Len(b)
    /\ SubSeq(b, p, p + Len(lit) - 1) = lit

\* b[q] is a quote that no backslash escapes, in the string body starting at p
ClosingQuote(b, p, q) == b[q] = Q /\ BackslashRun(b, p, q) % 2 = 0

\* 1-based index of the quote closing the string whose body starts at p
\* (the first quote not escaped by a backslash), 0 when the input ends first
ScanString(b, p) ==
    IF \E q \in p..Len(b) : ClosingQuote(b, p, q)
    THEN CHOOSE q \in p..Len(b) :
            /\ ClosingQuote(b, p, q)
            /\ \A r \in p..(q - 1) : ~ClosingQuote(b, p, r)
    ELSE 0

\* the string whose body starts at p and whose closing quote is at q
StrUpTo(b, p, q) ==
    IF q = 0 THEN [ok |-> FALSE, str |-> <<>>, next |-> Len(b) + 1]
    ELSE [ok |-> TRUE, str |-> Unescape(SubSeq(b, p, q - 1)), next |-> q + 1]

ParseStr(b, p) == StrUpTo(b, p, ScanString(b, p))

DecodeError(off) == [ok |-> FALSE, cmd |-> CommandRemove(<<>>), end |-> off]

\* a Set record at offset off whose key k and value v were parsed
DecodeSetValue(b, off, k, v) ==
    IF ~v.ok \/ ~MatchAt(b, v.next, CloseBraces) THEN DecodeError(off)
    ELSE [ok |-> TRUE, cmd |-> CommandSet(k.str, v.str),
          end |-> v.next - 1 + Len(CloseBraces)]

\* a Set record at offset off whose key k was parsed
DecodeSetKey(b, off, k) ==
    IF ~k.ok \/ ~MatchAt(b, k.next, ValueInfix) THEN DecodeError(off)
    ELSE DecodeSetValue(b, off, k, ParseStr(b, k.next + Len(ValueInfix)))

\* a Remove record at offset off whose key k was parsed
DecodeRemoveKey(b, off, k) ==
    IF ~k.ok \/ ~MatchAt(b, k.next, CloseBraces) THEN DecodeError(off)
    ELSE [ok |-> TRUE, cmd |-> CommandRemove(k.str),
          end |-> k.next - 1 + Len(CloseBraces)]

\* Decode one record starting at byte offset off (0-based) of b; end is the
\* byte offset just after the record (the stream's byte_offset()).
DecodeAt(b, off) ==
    IF MatchAt(b, off + 1, SetPrefix)
    THEN DecodeSetKey(b, off, ParseStr(b, off + 1 + Len(SetPrefix)))
    ELSE IF MatchAt(b, off + 1, RemovePrefix)
    THEN DecodeRemoveKey(b, off, ParseStr(b, off + 1 + Len(RemovePrefix)))
    ELSE DecodeError(off)

\* the decoded record d must be all of the slice
WholeSlice(slice, d) == IF d.ok /\ d.end = Len(slice) THEN d ELSE DecodeError(0)

\* serde_json::from_reader on a bounded reader: exactly one record and
\* nothing after it
FromReader(slice) == WholeSlice(slice, DecodeAt(slice, 0))

\* ------------------------------------------------------------------------
\* Result values
\* ------------------------------------------------------------------------
OkNone == [kind |-> "None"]

OkSome(v) == [kind |-> "Some", val |-> v]

OkUnit == [kind |-> "Ok"]

Err(e) == [kind |-> "Err", err |-> e]

\* ------------------------------------------------------------------------
\* Directory and files
\* ------------------------------------------------------------------------
EmptyMap == [x \in {} |-> 0]

MapPut(m, k, v) == [x \in DOMAIN m \cup {k} |-> IF x = k THEN v ELSE m[x]]

MapDrop(m, ks) == [x \in DOMAIN m \ ks |-> m[x]]

SetMax(S) == CHOOSE x \in S : \A y \in S : y <= x

SetMin(S) == CHOOSE x \in S : \A y \in S : x <= y

\* variant: the generations in descending order
RECURSIVE sort_gen_list_Descending(_)
sort_gen_list_Descending(gens) ==
    IF gens = {} THEN <<>>
    ELSE <<SetMax(gens)>> \o sort_gen_list_Descending(gens \ {SetMax(gens)})

\* the generations of the directory in ascending order
RECURSIVE sort_gen_list(_)
sort_gen_list(gens) ==
    IF gens = {} THEN <<>>
    ELSE <<SetMin(gens)>> \o sort_gen_list(gens \ {SetMin(gens)})

\* at most n bytes of b from byte offset off on
ReadAt(b, off, n) ==
    IF off >= Len(b) THEN <<>>
    ELSE SubSeq(b, off + 1, IF off + n <= Len(b) THEN off + n ELSE Len(b))

\* create the file when missing, bind an append writer to it (positioned
\* at its end) and put a reader for it (positioned at 0) into the fleet;
\* made lists the file when this call created it
new_log_file(fs, rds, gen) ==
    IF gen \in DOMAIN fs
    THEN [files |-> fs, readers |-> MapPut(rds, gen, 0),
          writer |-> [gen |-> gen, pos |-> Len(fs[gen])], made |-> <<>>]
    ELSE [files |-> MapPut(fs, gen, <<>>), readers |-> MapPut(rds, gen, 0),
          writer |-> [gen |-> gen, pos |-> 0], made |-> <<gen>>]

\* ------------------------------------------------------------------------
\* Replay
\* ------------------------------------------------------------------------
\* the entry of key leaves the index: its length becomes uncompacted
OldLen(idx, key) == IF key \in DOMAIN idx THEN idx[key].len ELSE 0

RECURSIVE LoadFrom(_, _, _, _, _)
RECURSIVE LoadRecord(_, _, _, _, _, _)
\* the while loop of load, at offset pos
LoadFrom(gen, b, pos, idx, unc) ==
    IF pos >= Len(b)
    THEN [ok |-> TRUE, index |-> idx, uncompacted |-> unc, pos |-> pos]
    ELSE LoadRecord(gen, b, pos, idx, unc, DecodeAt(b, pos))

\* variant: the length of a Remove record itself is not counted
LoadRecord_RemoveNotCounted(gen, b, pos, idx, unc, d) ==
    IF ~d.ok THEN [ok |-> FALSE, index |-> idx, uncompacted |-> unc, pos |-> pos]
    ELSE IF d.cmd.type = "Set"
    THEN LoadFrom(gen, b, d.end,
                  MapPut(idx, d.cmd.key, [gen |-> gen, pos |-> pos, len |-> d.end - pos]),
                  unc + OldLen(idx, d.cmd.key))
    ELSE LoadFrom(gen, b, d.end,
                  MapDrop(idx, {d.cmd.key}),
                  unc + OldLen(idx, d.cmd.key))

\* one turn of the loop, d being the record the stream yields at pos
LoadRecord(gen, b, pos, idx, unc, d) ==
    IF ~d.ok THEN [ok |-> FALSE, index |-> idx, uncompacted |-> unc, pos |-> pos]
    ELSE IF d.cmd.type = "Set"
    THEN LoadFrom(gen, b, d.end,
                  MapPut(idx, d.cmd.key, [gen |-> gen, pos |-> pos, len |-> d.end - pos]),
                  unc + OldLen(idx, d.cmd.key))
    ELSE LoadFrom(gen, b, d.end,
                  MapDrop(idx, {d.cmd.key}),
                  unc + OldLen(idx, d.cmd.key) + (d.end - pos))

load(gen, b, idx) == LoadFrom(gen, b, 0, idx, 0)

\* the loop of open over gen_list
RECURSIVE LoadAll(_, _, _, _, _)
RECURSIVE LoadAllNext(_, _, _, _, _, _)
LoadAll(fs, gen_list, rds, idx, unc) ==
    IF gen_list = <<>>
    THEN [ok |-> TRUE, readers |-> rds, index |-> idx, uncompacted |-> unc]
    ELSE LoadAllNext(fs, gen_list, rds, idx, unc,
                     load(Head(gen_list), fs[Head(gen_list)], idx))

\* r is what load returned for the first generation of gen_list
LoadAllNext(fs, gen_list, rds, idx, unc, r) ==
    IF ~r.ok THEN [ok |-> FALSE, readers |-> rds, index |-> idx, uncompacted |-> unc]
    ELSE LoadAll(fs, Tail(gen_list), MapPut(rds, Head(gen_list), r.pos), r.index,
                 unc + r.uncompacted)

\* variant: the next generation is the number of listed files plus one
NextGen_CountPlusOne(gen_list) == Len(gen_list) + 1

\* the generation open gives the writer: one past the highest listed
NextGen(gen_list) ==
    (IF gen_list = <<>> THEN 0 ELSE gen_list[Len(gen_list)]) + 1

\* the KvStore value open returns: l is the replay, n the new log file
OpenedStore(l, current_gen0, n) ==
    [ok |-> TRUE, files |-> n.files, readers |-> n.readers, writer |-> n.writer,
     index |-> l.index, current_gen |-> current_gen0,
     uncompacted |-> l.uncompacted, made |-> n.made]

OpenWriter(fs, l, current_gen0) ==
    OpenedStore(l, current_gen0, new_log_file(fs, l.readers, current_gen0))

OpenReplayed(fs, gen_list, l) ==
    IF ~l.ok THEN [ok |-> FALSE, files |-> fs, made |-> <<>>]
    ELSE OpenWriter(fs, l, NextGen(gen_list))

OpenListed(fs, gen_list) ==
    OpenReplayed(fs, gen_list, LoadAll(fs, gen_list, EmptyMap, EmptyMap, 0))

\* KvStore::open on the directory fs
open(fs) == OpenListed(fs, sort_gen_list(DOMAIN fs))

\* ------------------------------------------------------------------------
\* Store operations.  A store value s has the fields of KvStore plus the
\* directory: files, readers, writer, index, current_gen, uncompacted.
\* ------------------------------------------------------------------------

\* BufWriterWithPos::write of bytes followed by flush on the store's writer
WriteBytes(s, bytes) ==
    [s EXCEPT !.files[s.writer.gen] = @ \o bytes,
              !.writer.pos = @ + Len(bytes)]

WriteCmd(s, cmd) == WriteBytes(s, Encode(cmd))

\* variant: current_gen is not advanced
CompactionGens_NoRotation(current_gen0) ==
    [compaction_gen |-> current_gen0 + 1, current_gen |-> current_gen0]

\* variant: the two generations taken the other way round
CompactionGens_Swapped(current_gen0) ==
    [compaction_gen |-> current_gen0 + 2, current_gen |-> current_gen0 + 1]

\* the two generations a compaction reserves
CompactionGens(current_gen0) ==
    [compaction_gen |-> current_gen0 + 1, current_gen |-> current_gen0 + 2]

\* where the copy of cmd_pos starts reading: the reader seeks unless it is
\* already there
CopyStart(rds, cmd_pos) ==
    IF rds[cmd_pos.gen] # cmd_pos.pos THEN cmd_pos.pos ELSE rds[cmd_pos.gen]

\* the copy loop of compact over the index in the iteration order `order`;
\* buf is what the compaction writer holds until its flush
RECURSIVE CopyLive(_, _, _, _, _, _, _)
RECURSIVE CopyOne(_, _, _, _, _, _, _, _)
CopyLive(fs, rds, idx, order, compaction_gen, buf, new_pos) ==
    IF order = <<>> THEN [readers |-> rds, index |-> idx, buf |-> buf]
    ELSE CopyOne(fs, rds, idx, order, compaction_gen, buf, new_pos,
                 ReadAt(fs[idx[Head(order)].gen],
                        CopyStart(rds, idx[Head(order)]),
                        idx[Head(order)].len))

\* variant: new_pos is not advanced past the copied record
CopyOne_NoAdvance(fs, rds, idx, order, compaction_gen, buf, new_pos, data) ==
    CopyLive(fs,
             [rds EXCEPT ![idx[Head(order)].gen] =
                 CopyStart(rds, idx[Head(order)]) + Len(data)],
             [idx EXCEPT ![Head(order)] =
                 [gen |-> compaction_gen, pos |-> new_pos, len |-> Len(data)]],
             Tail(order), compaction_gen, buf \o data, new_pos)

\* one turn of the loop, data being what io::copy moved
CopyOne(fs, rds, idx, order, compaction_gen, buf, new_pos, data) ==
    CopyLive(fs,
             [rds EXCEPT ![idx[Head(order)].gen] =
                 CopyStart(rds, idx[Head(order)]) + Len(data)],
             [idx EXCEPT ![Head(order)] =
                 [gen |-> compaction_gen, pos |-> new_pos, len |-> Len(data)]],
             Tail(order), compaction_gen, buf \o data, new_pos + Len(data))

\* variant: the file the writer just left is kept
StaleGens_KeepsOldWriter(rds, compaction_gen) ==
    {gen \in DOMAIN rds : gen < compaction_gen - 1}

\* variant: the compaction target counts as stale
StaleGens_Inclusive(rds, compaction_gen) ==
    {gen \in DOMAIN rds : gen <= compaction_gen}

StaleGens(rds, compaction_gen) == {gen \in DOMAIN rds : gen < compaction_gen}

\* the end of compact: flush the compaction writer, drop the stale readers
\* and files, reset the counter
CompactFinish(g, w, c, cp, stale_gens) ==
    [files |-> MapDrop([c.files EXCEPT ![g.compaction_gen] = @ \o cp.buf], stale_gens),
     readers |-> MapDrop(cp.readers, stale_gens),
     writer |-> w.writer,
     index |-> cp.index,
     current_gen |-> g.current_gen,
     uncompacted |-> 0,
     made |-> w.made \o c.made,
     compaction_gen |-> g.compaction_gen]

CompactCopied(g, w, c, cp) ==
    CompactFinish(g, w, c, cp, StaleGens(cp.readers, g.compaction_gen))

\* w is the new writer's log file, c the compaction target's
CompactInto(s, order, g, w, c) ==
    CompactCopied(g, w, c,
                  CopyLive(c.files, c.readers, s.index, order, g.compaction_gen, <<>>, 0))

CompactRotated(s, order, g, w) ==
    CompactInto(s, order, g, w, new_log_file(w.files, w.readers, g.compaction_gen))

CompactWith(s, order, g) ==
    CompactRotated(s, order, g, new_log_file(s.files, s.readers, g.current_gen))

\* KvStore::compact; made lists the files it creates, in creation order
compact(s, order) == CompactWith(s, order, CompactionGens(s.current_gen))

\* variant: an entry already in the index is not replaced
SetPublish_KeepOld(s, key, value) ==
    [WriteCmd(s, CommandSet(key, value)) EXCEPT
        !.index = IF key \in DOMAIN s.index THEN s.index
                  ELSE MapPut(s.index, key,
                          [pos |-> s.writer.pos,
                           len |-> Len(Encode(CommandSet(key, value))),
                           gen |-> s.current_gen]),
        !.uncompacted = @ + OldLen(s.index, key)]

\* variant: len is the writer position after the write, not the difference
SetPublish_LenIsEnd(s, key, value) ==
    [WriteCmd(s, CommandSet(key, value)) EXCEPT
        !.index = MapPut(s.index, key,
                     [pos |-> s.writer.pos,
                      len |-> s.writer.pos + Len(Encode(CommandSet(key, value))),
                      gen |-> s.current_gen]),
        !.uncompacted = @ + OldLen(s.index, key)]

\* the index entry of a record s1 holds and s did not: from the writer
\* position before to the writer position after
NewCommandPos(s, s1) ==
    [pos |-> s.writer.pos, len |-> s1.writer.pos - s.writer.pos, gen |-> s.current_gen]

\* variant: the replaced entry's length is not counted
Published_NoAccounting(s, key, s1) ==
    [s1 EXCEPT !.index = MapPut(s.index, key, NewCommandPos(s, s1))]

\* the store after the index insert of set
Published(s, key, s1) ==
    [s1 EXCEPT !.index = MapPut(s.index, key, NewCommandPos(s, s1)),
               !.uncompacted = @ + OldLen(s.index, key)]

\* the part of set before the threshold test: write, flush, publish
SetPublish(s, key, value) == Published(s, key, WriteCmd(s, CommandSet(key, value)))

\* variant: the threshold itself already triggers
NeedsCompaction_AtThreshold(s) == s.uncompacted >= COMPACTION_THRESHOLD

\* the threshold test of set
NeedsCompaction(s) == s.uncompacted > COMPACTION_THRESHOLD

\* the result of get when d was decoded and the fleet is rds after the read
GetDecoded(d, rds) ==
    IF ~d.ok THEN [res |-> Err("Serde"), readers |-> rds]
    ELSE IF d.cmd.type = "Set"
    THEN [res |-> OkSome(d.cmd.value), readers |-> rds]
    ELSE [res |-> Err("UnexpectedCommandType"), readers |-> rds]

\* seek to cmd_pos.pos, take cmd_pos.len: slice is what the reader yields
GetSlice(s, cmd_pos, slice) ==
    GetDecoded(FromReader(slice),
               [s.readers EXCEPT ![cmd_pos.gen] = cmd_pos.pos + Len(slice)])

GetAt(s, cmd_pos) ==
    IF cmd_pos.gen \notin DOMAIN s.readers \/ cmd_pos.gen \notin DOMAIN s.files
    THEN [res |-> Err("Panic"), readers |-> s.readers]
    ELSE GetSlice(s, cmd_pos, ReadAt(s.files[cmd_pos.gen], cmd_pos.pos, cmd_pos.len))

\* KvStore::get: the result and the reader fleet after the read
get(s, key) ==
    IF key \in DOMAIN s.index THEN GetAt(s, s.index[key])
    ELSE [res |-> OkNone, readers |-> s.readers]

\* variant: the key leaves the index but no Remove record is written
remove_NoLogRecord(s, key) ==
    IF key \in DOMAIN s.index
    THEN [res |-> OkUnit, store |-> [s EXCEPT !.index = MapDrop(s.index, {key})]]
    ELSE [res |-> Err("KeyNotFound"), store |-> s]

\* variant: the Remove record is written before the index is consulted
remove_WriteBeforeCheck(s, key) ==
    IF key \in DOMAIN s.index
    THEN [res |-> OkUnit,
          store |-> [WriteCmd(s, CommandRemove(key)) EXCEPT
                        !.index = MapDrop(s.index, {key})]]
    ELSE [res |-> Err("KeyNotFound"), store |-> WriteCmd(s, CommandRemove(key))]

\* KvStore::remove
remove(s, key) ==
    IF key \in DOMAIN s.index
    THEN [res |-> OkUnit,
          store |-> [WriteCmd(s, CommandRemove(key)) EXCEPT
                        !.index = MapDrop(s.index, {key})]]
    ELSE [res |-> Err("KeyNotFound"), store |-> s]

\* the end of set on the published store s1: compact when the counter
\* passed the threshold
SetFinish(s1, order) ==
    IF NeedsCompaction(s1)
    THEN compact(s1, order)
    ELSE [files |-> s1.files, readers |-> s1.readers, writer |-> s1.writer,
          index |-> s1.index, current_gen |-> s1.current_gen,
          uncompacted |-> s1.uncompacted, made |-> <<>>, compaction_gen |-> 0]

\* KvStore::set
set(s, key, value, order) == SetFinish(SetPublish(s, key, value), order)

\* ------------------------------------------------------------------------
\* State
\* ------------------------------------------------------------------------
VARIABLES
    files,          \* the directory: generation -> bytes of <gen>.log
    opened,         \* TRUE while a KvStore value over the directory is alive
    readers,        \* KvStore.readers: generation -> reader position
    writer,         \* KvStore.writer: the file it appends to and its pos
    index,          \* KvStore.index: key -> CommandPos
    current_gen,    \* KvStore.current_gen
    uncompacted,    \* KvStore.uncompacted
    lastMut,        \* history: the most recent successful mutation of each key
    atClose,        \* history: what get returned for each key when the store closed
    created,        \* history: the files created, one batch per creating operation
    last,           \* history: the operation that led to this state (published
                    \* is the counter of a set before its threshold test)
    nmut, nopens,   \* history: the mutations and opens so far
    pc,             \* where the running operation stands: "idle" between
                    \* operations, a step of compact, "failed" after an I/O
                    \* error, "crashed" after the process stopped
    cw,             \* compact's compaction_gen, and its compaction_writer: the
                    \* bytes it buffers and new_pos
    todo,           \* compact: the keys the copy loop has still to visit
    stale,          \* compact: the stale generations still to delete (a set:
                    \* the loop takes them in any order)
    prior,          \* history: the index when the last stepwise set or compact
                    \* was called
    ncrash          \* history: how often the process stopped inside compact

stepVars == <<pc, cw, todo, stale, prior, ncrash>>

vars == <<files, opened, readers, writer, index, current_gen, uncompacted,
          lastMut, atClose, created, last, nmut, nopens, pc, cw, todo, stale, prior, ncrash>>

storeVars == <<readers, writer, index, current_gen, uncompacted>>

Store == [files |-> files, readers |-> readers, writer |-> writer, index |-> index,
          current_gen |-> current_gen, uncompacted |-> uncompacted]

\* the orders in which a HashMap with the keys ks may be iterated
Orders(ks) ==
    {o \in [1..Cardinality(ks) -> ks] : \A i, j \in DOMAIN o : i # j => o[i] # o[j]}

View(s) == [k \in Keys |-> get(s, k).res]

NoView == [k \in Keys |-> OkNone]

NoWriter == [gen |-> 0, buf |-> <<>>, new_pos |-> 0]

NoOp == [op |-> "none", key |-> <<>>, res |-> OkUnit, compacted |-> FALSE,
         compaction_gen |-> 0, before |-> NoView, published |-> 0]

Init ==
    /\ files = EmptyMap
    /\ opened = FALSE
    /\ readers = EmptyMap
    /\ writer = [gen |-> 0, pos |-> 0]
    /\ index = EmptyMap
    /\ current_gen = 0
    /\ uncompacted = 0
    /\ lastMut = [k \in Keys |-> [kind |-> "never"]]
    /\ atClose = NoView
    /\ created = <<>>
    /\ last = NoOp
    /\ nmut = 0
    /\ nopens = 0
    /\ pc = "idle"
    /\ cw = NoWriter
    /\ todo = <<>>
    /\ stale = {}
    /\ prior = EmptyMap
    /\ ncrash = 0

Install(s) ==
    /\ files' = s.files
    /\ readers' = s.readers
    /\ writer' = s.writer
    /\ index' = s.index
    /\ current_gen' = s.current_gen
    /\ uncompacted' = s.uncompacted

\* the state after open returned r
Opened(r) ==
    IF r.ok
    THEN /\ Install(r)
         /\ opened' = TRUE
         /\ created' = IF r.made = <<>> THEN created ELSE Append(created, r.made)
         /\ last' = [NoOp EXCEPT !.op = "open"]
    ELSE /\ UNCHANGED <<files, storeVars, opened, created>>
         /\ last' = [NoOp EXCEPT !.op = "open", !.res = Err("Serde")]

\* KvStore::open(path), at most limit times
OpenWithin(limit) ==
    /\ ~opened
    /\ nopens < limit
    /\ Opened(open(files))
    /\ nopens' = nopens + 1
    /\ UNCHANGED <<lastMut, atClose, nmut, stepVars>>

Open == OpenWithin(MaxOpens)

\* dropping the KvStore value
Close ==
    /\ opened
    /\ opened' = FALSE
    /\ atClose' = View(Store)
    /\ readers' = EmptyMap
    /\ writer' = [gen |-> 0, pos |-> 0]
    /\ index' = EmptyMap
    /\ current_gen' = 0
    /\ uncompacted' = 0
    /\ last' = [NoOp EXCEPT !.op = "close"]
    /\ UNCHANGED <<files, lastMut, created, nmut, nopens, stepVars>>

\* the state after set published s1 and returned s2
SetDone(key, s1, s2) ==
    /\ Install(s2)
    /\ created' = IF s2.made = <<>> THEN created ELSE Append(created, s2.made)
    /\ last' = [op |-> "set", key |-> key, res |-> OkUnit,
                compacted |-> NeedsCompaction(s1),
                compaction_gen |-> s2.compaction_gen,
                before |-> IF NeedsCompaction(s1) THEN View(s1) ELSE NoView,
                published |-> s1.uncompacted]

\* set from its published store s1 on, the index being iterated in any order
SetPublished(key, s1) ==
    \E order \in IF NeedsCompaction(s1) THEN Orders(DOMAIN s1.index) ELSE {<<>>} :
        SetDone(key, s1, SetFinish(s1, order))

\* KvStore::set(key, value)
Set(key, value) ==
    /\ opened
    /\ nmut < MaxMutations
    /\ SetPublished(key, SetPublish(Store, key, value))
    /\ lastMut' = [lastMut EXCEPT ![key] = [kind |-> "set", val |-> value]]
    /\ nmut' = nmut + 1
    /\ UNCHANGED <<opened, atClose, nopens, stepVars>>

\* the state after get returned r
GetDone(key, r) ==
    /\ readers' = r.readers
    /\ last' = [NoOp EXCEPT !.op = "get", !.key = key, !.res = r.res]

\* KvStore::get(key)
Get(key) ==
    /\ opened
    /\ GetDone(key, get(Store, key))
    /\ UNCHANGED <<files, opened, writer, index, current_gen, uncompacted,
                   lastMut, atClose, created, nmut, nopens, stepVars>>

\* the state after remove returned r
RemoveDone(key, r) ==
    /\ Install(r.store)
    /\ last' = [NoOp EXCEPT !.op = "remove", !.key = key, !.res = r.res]
    /\ IF r.res = OkUnit
       THEN /\ nmut < MaxMutations
            /\ nmut' = nmut + 1
            /\ lastMut' = [lastMut EXCEPT ![key] = [kind |-> "removed"]]
       ELSE UNCHANGED <<nmut, lastMut>>

\* KvStore::remove(key)
Remove(key) ==
    /\ opened
    /\ RemoveDone(key, remove(Store, key))
    /\ UNCHANGED <<opened, atClose, created, nopens, stepVars>>

\* the state after compact, called on the store s, returned s2
CompactDone(s, s2) ==
    /\ Install(s2)
    /\ created' = Append(created, s2.made)
    /\ last' = [op |-> "compact", key |-> <<>>, res |-> OkUnit,
                compacted |-> TRUE,
                compaction_gen |-> s2.compaction_gen,
                before |-> View(s),
                published |-> s.uncompacted]

\* KvStore::compact() called by the user of the store, whatever the counter
\* is; the index is iterated in any order
Compact ==
    /\ opened
    /\ nmut < MaxMutations
    /\ \E order \in Orders(DOMAIN index) : CompactDone(Store, compact(Store, order))
    /\ nmut' = nmut + 1
    /\ UNCHANGED <<opened, lastMut, atClose, nopens, stepVars>>

Next ==
    \/ Open
    \/ Close
    \/ \E key \in Keys, value \in Values : Set(key, value)
    \/ Compact
    \/ \E key \in Keys : Get(key)
    \/ \E key \in Keys : Remove(key)

Spec == Init /\ [][Next]_vars

TypeOK ==
    /\ opened \in BOOLEAN
    /\ DOMAIN index \subseteq Keys
    /\ uncompacted \in Nat
    /\ current_gen \in Nat

\* ------------------------------------------------------------------------
\* set and compact taken one step at a time.  A set whose counter passes
\* the threshold stops after publishing, and a direct call of compact
\* starts at once; compact then runs as the steps
\* rotate (new writer file), target (compaction file), copy (one record
\* each), flush, delete (one stale file each) and end.
\* ------------------------------------------------------------------------
IdleOpen == pc = "idle" /\ Open

IdleClose == pc = "idle" /\ Close

IdleGet(key) == pc = "idle" /\ Get(key)

IdleRemove(key) == pc = "idle" /\ Remove(key)

\* the state after set published s1: compact is entered when the counter
\* passed the threshold
StepPublished(key, s1) ==
    /\ Install(s1)
    /\ pc' = IF NeedsCompaction(s1) THEN "rotate" ELSE "idle"
    /\ last' = [op |-> "set", key |-> key, res |-> OkUnit,
                compacted |-> NeedsCompaction(s1),
                compaction_gen |-> IF NeedsCompaction(s1)
                                   THEN CompactionGens(s1.current_gen).compaction_gen
                                   ELSE 0,
                before |-> IF NeedsCompaction(s1) THEN View(s1) ELSE NoView,
                published |-> s1.uncompacted]

\* KvStore::set(key, value) up to its threshold test
StepSet(key, value) ==
    /\ opened
    /\ pc = "idle"
    /\ nmut < MaxMutations
    /\ StepPublished(key, SetPublish(Store, key, value))
    /\ prior' = index
    /\ lastMut' = [lastMut EXCEPT ![key] = [kind |-> "set", val |-> value]]
    /\ nmut' = nmut + 1
    /\ UNCHANGED <<opened, atClose, created, nopens, cw, todo, stale, ncrash>>

\* KvStore::compact() called by the user of the store: compact is entered
\* whatever the counter is
StepCompact ==
    /\ opened
    /\ pc = "idle"
    /\ nmut < MaxMutations
    /\ pc' = "rotate"
    /\ last' = [op |-> "compact", key |-> <<>>, res |-> OkUnit,
                compacted |-> TRUE,
                compaction_gen |-> CompactionGens(current_gen).compaction_gen,
                before |-> View(Store),
                published |-> uncompacted]
    /\ prior' = index
    /\ nmut' = nmut + 1
    /\ UNCHANGED <<files, storeVars, opened, lastMut, atClose, created, nopens,
                   cw, todo, stale, ncrash>>

\* the writer moved to the log file w of generation g.current_gen
Rotated(g, w) ==
    /\ files' = w.files
    /\ readers' = w.readers
    /\ writer' = w.writer
    /\ current_gen' = g.current_gen
    /\ cw' = [gen |-> g.compaction_gen, buf |-> <<>>, new_pos |-> 0]

RotateWith(g) == Rotated(g, new_log_file(files, readers, g.current_gen))

\* compact: the two generations are taken and the writer gets its new file
CompactRotate ==
    /\ pc = "rotate"
    /\ RotateWith(CompactionGens(current_gen))
    /\ pc' = "target"
    /\ UNCHANGED <<opened, index, uncompacted, lastMut, atClose, created, last,
                   nmut, nopens, todo, stale, prior, ncrash>>

\* the compaction file c was created
Targeted(c) ==
    /\ files' = c.files
    /\ readers' = c.readers

\* compact: the compaction writer gets its file; the loop over the index
\* starts, in whatever order the map iterates
CompactTarget ==
    /\ pc = "target"
    /\ Targeted(new_log_file(files, readers, cw.gen))
    /\ \E order \in Orders(DOMAIN index) : todo' = order
    /\ pc' = "copy"
    /\ UNCHANGED <<opened, writer, index, current_gen, uncompacted, lastMut,
                   atClose, created, last, nmut, nopens, cw, stale, prior, ncrash>>

\* variant: the index entry is not redirected to the copy
Copied_NoRedirect(cp) ==
    /\ readers' = cp.readers
    /\ index' = index
    /\ cw' = [cw EXCEPT !.buf = cp.buf,
                        !.new_pos = @ + (Len(cp.buf) - Len(cw.buf))]

\* one turn of the copy loop gave cp
Copied(cp) ==
    /\ readers' = cp.readers
    /\ index' = cp.index
    /\ cw' = [cw EXCEPT !.buf = cp.buf,
                        !.new_pos = @ + (Len(cp.buf) - Len(cw.buf))]

\* compact: one record is copied and its index entry redirected
CompactCopy ==
    /\ pc = "copy"
    /\ todo # <<>>
    /\ Copied(CopyLive(files, readers, index, <<Head(todo)>>, cw.gen, cw.buf,
                       cw.new_pos))
    /\ todo' = Tail(todo)
    /\ UNCHANGED <<files, opened, writer, current_gen, uncompacted, lastMut,
                   atClose, created, last, nmut, nopens, pc, stale, prior, ncrash>>

\* compact: the loop is over; the compaction writer is flushed and the stale
\* generations are collected
CompactFlush ==
    /\ pc = "copy"
    /\ todo = <<>>
    /\ files' = [files EXCEPT ![cw.gen] = @ \o cw.buf]
    /\ cw' = [cw EXCEPT !.buf = <<>>]
    /\ stale' = StaleGens(readers, cw.gen)
    /\ pc' = "delete"
    /\ UNCHANGED <<opened, readers, writer, index, current_gen, uncompacted,
                   lastMut, atClose, created, last, nmut, nopens, todo, prior, ncrash>>

\* the stale generation stale_gen is dropped from the fleet and its file
\* deleted
Deleted(stale_gen) ==
    /\ readers' = MapDrop(readers, {stale_gen})
    /\ files' = MapDrop(files, {stale_gen})
    /\ stale' = stale \ {stale_gen}

\* compact: one turn of the loop over stale_gens, which holds them in
\* whatever order the reader map yielded them
CompactDelete ==
    /\ pc = "delete"
    /\ \E stale_gen \in stale : Deleted(stale_gen)
    /\ UNCHANGED <<opened, writer, index, current_gen, uncompacted, lastMut,
                   atClose, created, last, nmut, nopens, pc, cw, todo, prior, ncrash>>

\* compact: the counter is reset; compact returns Ok, and so does a set that
\* called it
CompactEnd ==
    /\ pc = "delete"
    /\ stale = {}
    /\ uncompacted' = 0
    /\ pc' = "idle"
    /\ cw' = NoWriter
    /\ UNCHANGED <<files, opened, readers, writer, index, current_gen, lastMut,
                   atClose, created, last, nmut, nopens, todo, stale, prior, ncrash>>

CompactStep ==
    \/ CompactRotate
    \/ CompactTarget
    \/ CompactCopy
    \/ CompactFlush
    \/ CompactDelete
    \/ CompactEnd

NextSteps ==
    \/ IdleOpen
    \/ IdleClose
    \/ \E key \in Keys, value \in Values : StepSet(key, value)
    \/ \E key \in Keys : IdleGet(key)
    \/ \E key \in Keys : IdleRemove(key)
    \/ StepCompact
    \/ CompactStep

SpecSteps == Init /\ [][NextSteps]_vars

\* ------------------------------------------------------------------------
\* The process stops inside compact, and the directory is opened again
\* ------------------------------------------------------------------------
CrashOpen == pc = "idle" /\ OpenWithin(CrashOpens)

\* the process stops at a step boundary of compact: at its entry, before the
\* new writer's file exists, after a file was created, a record copied, the
\* flush, or a stale file deleted.  What the compaction writer still buffers
\* is lost; the directory stays as it is.
Crash ==
    /\ opened
    /\ ncrash < MaxCrashes
    /\ ncrash' = ncrash + 1
    /\ pc \in {"rotate", "target", "copy", "delete"}
    /\ opened' = FALSE
    /\ atClose' = last.before
    /\ readers' = EmptyMap
    /\ writer' = [gen |-> 0, pos |-> 0]
    /\ index' = EmptyMap
    /\ current_gen' = 0
    /\ uncompacted' = 0
    /\ last' = [NoOp EXCEPT !.op = "crash"]
    /\ pc' = "crashed"
    /\ cw' = NoWriter
    /\ todo' = <<>>
    /\ stale' = {}
    /\ UNCHANGED <<files, lastMut, created, nmut, nopens, prior>>

\* the state after the open that follows a crash returned r
Recovered(r) ==
    IF r.ok
    THEN /\ Install(r)
         /\ opened' = TRUE
         /\ last' = [NoOp EXCEPT !.op = "recover"]
    ELSE /\ UNCHANGED <<files, storeVars, opened>>
         /\ last' = [NoOp EXCEPT !.op = "recover", !.res = Err("Serde")]

\* KvStore::open(path) on the directory the stopped process left
Recover ==
    /\ ~opened
    /\ pc = "crashed"
    /\ Recovered(open(files))
    /\ pc' = "idle"
    /\ UNCHANGED <<lastMut, atClose, created, nmut, nopens, cw, todo, stale, prior, ncrash>>

NextCrash ==
    \/ CrashOpen
    \/ IdleClose
    \/ \E key \in Keys, value \in Values : StepSet(key, value)
    \/ \E key \in Keys : IdleGet(key)
    \/ \E key \in Keys : IdleRemove(key)
    \/ StepCompact
    \/ CompactStep
    \/ Crash
    \/ Recover

SpecCrash == Init /\ [][NextCrash]_vars

\* ------------------------------------------------------------------------
\* I/O errors: one system call of the running operation fails, and the
\* operation returns the way its ? operators and its ignored results make
\* it return.  After the error only get is called.
\* ------------------------------------------------------------------------

\* set: the record is in the writer's buffer and the flush fails before a
\* byte reaches the file; set returns the error before it touches the index
SetFlushFails(key, value) ==
    /\ opened
    /\ pc = "idle"
    /\ nmut < MaxMutations
    /\ writer' = [writer EXCEPT !.pos = @ + Len(Encode(CommandSet(key, value)))]
    /\ prior' = index
    /\ last' = [NoOp EXCEPT !.op = "set", !.key = key, !.res = Err("Io")]
    /\ pc' = "failed"
    /\ UNCHANGED <<files, opened, readers, index, current_gen, uncompacted,
                   lastMut, atClose, created, nmut, nopens, cw, todo, stale, ncrash>>

\* remove of a key the index holds: the record is in the writer's buffer and
\* the flush fails; its result is dropped, the key leaves the index and
\* remove returns Ok
RemoveFlushFails(key) ==
    /\ opened
    /\ pc = "idle"
    /\ nmut < MaxMutations
    /\ key \in DOMAIN index
    /\ writer' = [writer EXCEPT !.pos = @ + Len(Encode(CommandRemove(key)))]
    /\ index' = MapDrop(index, {key})
    /\ last' = [NoOp EXCEPT !.op = "remove", !.key = key, !.res = OkUnit]
    /\ lastMut' = [lastMut EXCEPT ![key] = [kind |-> "removed"]]
    /\ nmut' = nmut + 1
    /\ pc' = "failed"
    /\ UNCHANGED <<files, opened, readers, current_gen, uncompacted, atClose,
                   created, nopens, cw, todo, stale, prior, ncrash>>

\* compact returns an error, and a set that called it returns it
CompactFailed ==
    /\ last' = [last EXCEPT !.res = Err("Io")]
    /\ pc' = "failed"
    /\ cw' = NoWriter
    /\ todo' = <<>>
    /\ stale' = {}

\* new_log_file(gen) fails: at the creation of the file, or after it at the
\* opening of the reader; the fleet gets no reader
LogFileFails(gen) ==
    /\ \E made \in BOOLEAN :
          files' = IF made /\ gen \notin DOMAIN files
                   THEN MapPut(files, gen, <<>>) ELSE files
    /\ UNCHANGED readers

\* the compaction writer is dropped with bytes in its buffer: the drop
\* flushes them when it can
WriterDropped ==
    \E flushed \in BOOLEAN :
        files' = IF flushed THEN [files EXCEPT ![cw.gen] = @ \o cw.buf] ELSE files

\* compact: current_gen is advanced, then the new writer's log file fails;
\* the writer stays on its old file
RotateFails ==
    /\ pc = "rotate"
    /\ current_gen' = CompactionGens(current_gen).current_gen
    /\ LogFileFails(CompactionGens(current_gen).current_gen)
    /\ CompactFailed
    /\ UNCHANGED <<opened, writer, index, uncompacted, lastMut, atClose, created,
                   nmut, nopens, prior, ncrash>>

\* compact: the compaction file fails
TargetFails ==
    /\ pc = "target"
    /\ LogFileFails(cw.gen)
    /\ CompactFailed
    /\ UNCHANGED <<opened, writer, index, current_gen, uncompacted, lastMut,
                   atClose, created, nmut, nopens, prior, ncrash>>

\* the fleet after the seek of a turn of the copy loop to cmd_pos: the
\* reader stands at the start of the record
Sought(cmd_pos) == [readers EXCEPT ![cmd_pos.gen] = CopyStart(readers, cmd_pos)]

\* compact: a turn of the copy loop fails before a byte is moved, at its
\* seek, which leaves the reader where it was, or after the seek at the
\* read of the copy; the entries of the earlier turns stay redirected
CopyFails ==
    /\ pc = "copy"
    /\ todo # <<>>
    /\ \E sought \in BOOLEAN :
          readers' = IF sought THEN Sought(index[Head(todo)]) ELSE readers
    /\ WriterDropped
    /\ CompactFailed
    /\ UNCHANGED <<opened, writer, index, current_gen, uncompacted,
                   lastMut, atClose, created, nmut, nopens, prior, ncrash>>

\* compact: the flush of the compaction writer fails
FlushFails ==
    /\ pc = "copy"
    /\ todo = <<>>
    /\ WriterDropped
    /\ CompactFailed
    /\ UNCHANGED <<opened, readers, writer, index, current_gen, uncompacted,
                   lastMut, atClose, created, nmut, nopens, prior, ncrash>>

\* compact: a stale reader is dropped and the deletion of its file fails
DeleteFails ==
    /\ pc = "delete"
    /\ \E stale_gen \in stale : readers' = MapDrop(readers, {stale_gen})
    /\ CompactFailed
    /\ UNCHANGED <<files, opened, writer, index, current_gen, uncompacted,
                   lastMut, atClose, created, nmut, nopens, prior, ncrash>>

\* get on the store an error left
FailedGet(key) == pc = "failed" /\ Get(key)

NextFault ==
    \/ IdleOpen
    \/ IdleClose
    \/ \E key \in Keys, value \in Values : StepSet(key, value)
    \/ \E key \in Keys : IdleGet(key)
    \/ \E key \in Keys : IdleRemove(key)
    \/ StepCompact
    \/ CompactStep
    \/ \E key \in Keys, value \in Values : SetFlushFails(key, value)
    \/ \E key \in Keys : RemoveFlushFails(key)
    \/ RotateFails
    \/ TargetFails
    \/ CopyFails
    \/ FlushFails
    \/ DeleteFails
    \/ \E key \in Keys : FailedGet(key)

SpecFault == Init /\ [][NextFault]_vars

\* ------------------------------------------------------------------------
\* Observations used by the properties
\* ------------------------------------------------------------------------
GetRes(k) == get(Store, k).res

Range(seq) == {seq[i] : i \in DOMAIN seq}

RECURSIVE Flatten(_)
Flatten(batches) ==
    IF batches = <<>> THEN <<>> ELSE Head(batches) \o Flatten(Tail(batches))

\* the batches of created that a compaction made
CompactionBatches == {i \in DOMAIN created : Len(created[i]) = 2}

\* the records of a file as (pos, len) pairs, by scanning it from offset 0
RECURSIVE RecordsFrom(_, _)
RecordsFrom(b, pos) ==
    IF pos >= Len(b) \/ ~DecodeAt(b, pos).ok THEN {}
    ELSE {[pos |-> pos, len |-> DecodeAt(b, pos).end - pos]}
            \cup RecordsFrom(b, DecodeAt(b, pos).end)

RECURSIVE SumLen(_)
SumLen(recs) ==
    IF recs = {} THEN 0
    ELSE LET r == CHOOSE x \in recs : TRUE IN r.len + SumLen(recs \ {r})

\* the records of the directory no index entry refers to
DeadRecords ==
    UNION {{[gen |-> g, pos |-> r.pos, len |-> r.len] : r \in RecordsFrom(files[g], 0)}
              : g \in DOMAIN files}
        \ {index[k] : k \in DOMAIN index}

DeadBytes == SumLen(DeadRecords)

\* ------------------------------------------------------------------------
\* Properties
\* ------------------------------------------------------------------------

\* C1: last write wins.  While the store is open, a key whose most recent
\* mutation is set(k, v) reads as v, and a key never set reads as empty,
\* whatever compactions and re-opens happened in between.
C1_LastWriteWins ==
    opened =>
        \A k \in Keys :
            /\ lastMut[k].kind = "set" => GetRes(k) = OkSome(lastMut[k].val)
            /\ lastMut[k].kind = "never" => GetRes(k) = OkNone

\* a key reads as its last value after two compactions
C1_Witness ==
    /\ opened
    /\ Cardinality(CompactionBatches) >= 2
    /\ \E k \in Keys : lastMut[k].kind = "set" /\ GetRes(k) = OkSome(lastMut[k].val)

\* C2: re-opening the directory succeeds and gives, for every key, the
\* result get gave when the store was closed.
C2_ReopenPreservesGet ==
    last.op = "open" =>
        /\ opened
        /\ last.res = OkUnit
        /\ \A k \in Keys : GetRes(k) = atClose[k]

\* a re-open that replayed two non-empty generations after a compaction
C2_Witness ==
    /\ last.op = "open"
    /\ nopens >= 2
    /\ CompactionBatches # {}
    /\ Cardinality({g \in DOMAIN files : files[g] # <<>>}) >= 2
    /\ \E k \in Keys : atClose[k].kind = "Some" /\ lastMut[k].kind = "set"

\* C3: while the most recent mutation of k is a successful remove(k),
\* get(k) is empty.
C3_RemovedStaysEmpty ==
    opened => \A k \in Keys : lastMut[k].kind = "removed" => GetRes(k) = OkNone

\* a removed key is still empty after a re-open and a compaction
C3_Witness ==
    /\ opened
    /\ nopens >= 2
    /\ last.compacted
    /\ \E k \in Keys : lastMut[k].kind = "removed" /\ GetRes(k) = OkNone

\* C4: remove(k) of a key absent from the index fails with KeyNotFound and
\* leaves the directory, writer, index, readers, current_gen and uncompacted
\* as they were.
C4_RemoveAbsent ==
    [][\A k \in Keys :
          (last'.op = "remove" /\ last'.key = k /\ k \notin DOMAIN index)
             => /\ last'.res = Err("KeyNotFound")
                /\ UNCHANGED <<files, readers, writer, index, current_gen, uncompacted>>]_vars

\* a remove of an absent key was refused on a store that holds data
C4_Witness ==
    /\ last.op = "remove"
    /\ last.res = Err("KeyNotFound")
    /\ writer.pos > 0
    /\ index # EmptyMap

\* C5: right after a compaction, the directory holds exactly
\* compaction_gen.log and (compaction_gen+1).log, and every key reads as it
\* did just before the compaction.
C5_CompactionResult ==
    last.compacted =>
        /\ DOMAIN files = {last.compaction_gen, last.compaction_gen + 1}
        /\ \A k \in Keys : GetRes(k) = last.before[k]

\* a compaction that copied two live keys out of more than one old file
C5_Witness ==
    /\ last.compacted
    /\ Cardinality(DOMAIN index) = 2
    /\ nopens >= 2

\* C6 as stated: the generations of the created files increase strictly in
\* the order of creation, the two files of one compaction included.
C6_CreatedStrictlyIncreasing ==
    \A i, j \in DOMAIN Flatten(created) :
        i < j => Flatten(created)[i] < Flatten(created)[j]

\* C6 amended: every created file has a generation greater than that of
\* every file an earlier operation created; one compaction creates
\* current_gen+2 first and current_gen+1 second.
C6_CreatedIncreasingAcrossOperations ==
    /\ \A i, j \in DOMAIN created :
          i < j => \A x \in Range(created[i]), y \in Range(created[j]) : x < y
    /\ \A i \in CompactionBatches : created[i][1] = created[i][2] + 1

\* files were created by an open, then a compaction, then another open
C6_Witness ==
    \E i \in CompactionBatches : 1 < i /\ i < Len(created)

\* C7 as stated: uncompacted equals the bytes of the records no index entry
\* refers to.
C7_UncompactedIsDeadBytes ==
    opened => uncompacted = DeadBytes

\* C8 (I1): every index entry names a generation with a reader and a file,
\* and lies within that file.
C8_IndexWithinFiles ==
    opened =>
        \A k \in DOMAIN index :
            /\ index[k].gen \in DOMAIN readers
            /\ index[k].gen \in DOMAIN files
            /\ index[k].pos + index[k].len <= Len(files[index[k].gen])

\* two entries in different files, one of them the compaction target
C8_Witness ==
    /\ opened
    /\ CompactionBatches # {}
    /\ \E k1, k2 \in DOMAIN index :
          index[k1].gen < index[k2].gen /\ index[k1].len > 0 /\ index[k2].len > 0

\* C9 (I3): the bytes an index entry of k refers to are exactly one Set
\* record with key k, and get(k) returns its value.
C9_IndexedRecordIsSet ==
    opened =>
        \A k \in DOMAIN index :
            LET cmd_pos == index[k]
                slice == ReadAt(files[cmd_pos.gen], cmd_pos.pos, cmd_pos.len)
                d == FromReader(slice)
            IN  /\ cmd_pos.gen \in DOMAIN files
                /\ Len(slice) = cmd_pos.len
                /\ d.ok
                /\ d.cmd.type = "Set"
                /\ d.cmd.key = k
                /\ GetRes(k) = OkSome(d.cmd.value)

\* two entries in one file, one of them not at offset 0, after a compaction
C9_Witness ==
    /\ opened
    /\ last.compacted
    /\ \E k1, k2 \in DOMAIN index :
          /\ index[k1].gen = index[k2].gen
          /\ index[k1].pos = 0
          /\ index[k2].pos = index[k1].len

\* C10 (I2): the writer appends to current_gen.log, and current_gen is
\* greater than every other generation of the fleet and of the directory.
C10_WriterIsNewest ==
    opened =>
        /\ writer.gen = current_gen
        /\ current_gen \in DOMAIN files
        /\ \A g \in (DOMAIN readers \cup DOMAIN files) \ {current_gen} : g < current_gen

\* an open over a directory a compaction left behind
C10_Witness ==
    /\ opened
    /\ last.op = "open"
    /\ CompactionBatches # {}
    /\ Cardinality(DOMAIN files) >= 3

\* C14: open makes current_gen one more than the highest generation of the
\* directory (0 when it holds none), creates that file empty, binds the
\* writer to it at position 0 and puts a reader for it into the fleet; on an
\* empty directory the result is 1.log alone and every key reads as empty.
C14_OpenStartsNextGeneration ==
    [][(~opened /\ opened') =>
          /\ current_gen' =
                (IF DOMAIN files = {} THEN 0 ELSE SetMax(DOMAIN files)) + 1
          /\ current_gen' \notin DOMAIN files
          /\ files' = MapPut(files, current_gen', <<>>)
          /\ writer' = [gen |-> current_gen', pos |-> 0]
          /\ current_gen' \in DOMAIN readers'
          /\ (DOMAIN files = {} =>
                 /\ DOMAIN files' = {1}
                 /\ \A k \in Keys : GetRes(k)' = OkNone)]_vars

\* an open over the two files a compaction left: generations 2 and 3
C14_Witness ==
    /\ opened
    /\ last.op = "open"
    /\ DOMAIN files = {2, 3, 4}
    /\ current_gen = 4
    /\ writer = [gen |-> 4, pos |-> 0]

\* a second set(key, value) on the store s a first one left: s1 is the
\* store it publishes
SetAgainKeeps(s, key, value, s1) ==
    /\ s1.uncompacted = s.uncompacted + Len(Encode(CommandSet(key, value)))
    /\ \A order \in (IF NeedsCompaction(s1) THEN Orders(DOMAIN s1.index) ELSE {<<>>}) :
          View(SetFinish(s1, order)) = View(s)

\* C15: from the store a set(k, v) left, a second set(k, v) leaves get of
\* every key as it is, and its counter before the threshold test is the
\* counter the first one left plus the length of the first one's record.
C15_SetTwice ==
    (opened /\ last.op = "set") =>
        SetAgainKeeps(Store, last.key, lastMut[last.key].val,
                      SetPublish(Store, last.key, lastMut[last.key].val))

\* after a set on a store of two keys, the second equal set would compact
C15_Witness ==
    /\ opened
    /\ last.op = "set"
    /\ Cardinality(DOMAIN index) = 2
    /\ NeedsCompaction(SetPublish(Store, last.key, lastMut[last.key].val))

\* C17: a compaction keeps the key set of the index it started from (for
\* the compaction of a set, the index with the entry just published), gives
\* every entry the generation compaction_gen and the length it had, lays
\* the entries out pairwise disjoint and covering all of compaction_gen.log,
\* leaves the new writer file empty and the counter 0.
C17_CompactionRelocatesLive ==
    [][(last'.compacted /\ nmut' = nmut + 1) =>
          /\ DOMAIN index' =
                DOMAIN index \cup (IF last'.op = "set" THEN {last'.key} ELSE {})
          /\ \A k \in DOMAIN index' :
                /\ index'[k].gen = last'.compaction_gen
                /\ index'[k].len =
                      IF last'.op = "set" /\ k = last'.key
                      THEN Len(Encode(CommandSet(k, lastMut'[k].val)))
                      ELSE index[k].len
                /\ index'[k].pos + index'[k].len
                      <= Len(files'[last'.compaction_gen])
          /\ \A k1, k2 \in DOMAIN index' :
                k1 # k2 => \/ index'[k1].pos + index'[k1].len <= index'[k2].pos
                           \/ index'[k2].pos + index'[k2].len <= index'[k1].pos
          /\ SumLen({[key |-> k, len |-> index'[k].len] : k \in DOMAIN index'})
                = Len(files'[last'.compaction_gen])
          /\ writer'.gen = current_gen'
          /\ files'[current_gen'] = <<>>
          /\ uncompacted' = 0]_vars

\* a compaction that relocated two records, one of them behind the other
C17_Witness ==
    /\ last.compacted
    /\ uncompacted = 0
    /\ files[current_gen] = <<>>
    /\ \E k1, k2 \in DOMAIN index :
          /\ index[k1].gen = last.compaction_gen
          /\ index[k2].gen = last.compaction_gen
          /\ index[k1].len > 0
          /\ index[k2].pos = index[k1].pos + index[k1].len

\* a step in which a compaction ran: it created two log files
CompactionRan ==
    /\ Len(created') = Len(created) + 1
    /\ Len(created'[Len(created')]) = 2

\* C18: a set compacts exactly when the counter, after the new entry is
\* published, is greater than COMPACTION_THRESHOLD; the compaction leaves
\* the counter 0, so the counter is at most the threshold after every set;
\* get, remove, open and close never compact.
C18_CompactsPastThreshold ==
    [][/\ last'.op = "set" =>
             /\ last'.published =
                   uncompacted + (IF last'.key \in DOMAIN index
                                  THEN index[last'.key].len ELSE 0)
             /\ CompactionRan <=> last'.published > COMPACTION_THRESHOLD
             /\ CompactionRan => uncompacted' = 0
             /\ ~CompactionRan => uncompacted' = last'.published
             /\ uncompacted' <= COMPACTION_THRESHOLD
       /\ last'.op \in {"get", "remove", "open", "close"} =>
             /\ ~CompactionRan
             /\ DOMAIN files \subseteq DOMAIN files'
             /\ \A k \in DOMAIN index \cap DOMAIN index' : index'[k] = index[k]]_vars

\* a set that brought the counter to the threshold exactly and did not
\* compact
C18_Witness ==
    /\ opened
    /\ last.op = "set"
    /\ last.published = COMPACTION_THRESHOLD
    /\ uncompacted = COMPACTION_THRESHOLD
    /\ ~last.compacted
    /\ created = <<(<<1>>)>>

\* the records of the file b of generation g from offset pos on, each with
\* its place, its kind and its key
RECURSIVE CommandsFrom(_, _, _)
RECURSIVE CommandsNext(_, _, _, _)
CommandsFrom(g, b, pos) ==
    IF pos >= Len(b) THEN {} ELSE CommandsNext(g, b, pos, DecodeAt(b, pos))

CommandsNext(g, b, pos, d) ==
    IF ~d.ok THEN {}
    ELSE {[gen |-> g, pos |-> pos, len |-> d.end - pos,
           type |-> d.cmd.type, key |-> d.cmd.key]}
            \cup CommandsFrom(g, b, d.end)

LogCommands == UNION {CommandsFrom(g, files[g], 0) : g \in DOMAIN files}

\* r is the record of its key that comes last in the log: highest
\* generation, then highest offset
IsLastOfKey(recs, r) ==
    \A r2 \in recs :
        r2.key = r.key => \/ r2.gen < r.gen
                          \/ (r2.gen = r.gen /\ r2.pos <= r.pos)

PlaceOf(r) == [gen |-> r.gen, pos |-> r.pos, len |-> r.len]

\* the index and the counter are what replaying the records recs gives
ReplayOf(recs) ==
    /\ \A k \in Keys :
          IF \E r \in recs : r.key = k /\ r.type = "Set" /\ IsLastOfKey(recs, r)
          THEN /\ k \in DOMAIN index
               /\ \E r \in recs : /\ r.key = k /\ r.type = "Set"
                                   /\ IsLastOfKey(recs, r)
                                   /\ index[k] = PlaceOf(r)
          ELSE k \notin DOMAIN index
    /\ uncompacted =
          SumLen({r \in recs : \A k \in DOMAIN index : index[k] # PlaceOf(r)})

\* C19: right after open, the index holds for each key the place (g, pos,
\* new_pos - pos) of its last record in file order over ascending
\* generations when that record is a Set and nothing when it is a Remove,
\* and uncompacted is the total length of the records the index does not
\* refer to: every replaced or removed Set and every Remove record.
C19_ReplayAccounting ==
    (opened /\ last.op = "open") => ReplayOf(LogCommands)

\* an open that replayed a Remove record and a live Set record
C19_Witness ==
    /\ opened
    /\ last.op = "open"
    /\ nopens >= 2
    /\ index # EmptyMap
    /\ \E k \in Keys : lastMut[k].kind = "removed"
    /\ uncompacted > 0

\* C16: at every step boundary inside compact each index entry names a
\* generation that has a file and a reader in the fleet, and a step deletes
\* a file only when every index entry already names compaction_gen.
C16_NoDanglingEntryInsideCompaction ==
    /\ [](pc \in {"rotate", "target", "copy", "delete"} =>
             \A k \in DOMAIN index :
                 /\ index[k].gen \in DOMAIN files
                 /\ index[k].gen \in DOMAIN readers)
    /\ [][(\E g \in DOMAIN files : g \notin DOMAIN files') =>
             \A k \in DOMAIN index : index[k].gen = cw.gen]_vars

\* inside the compaction of a re-opened store of two keys, one of the two
\* stale files is deleted and the other is not yet
C16_Witness ==
    /\ pc = "delete"
    /\ cw.gen = 3
    /\ Cardinality(stale) = 1
    /\ Cardinality(DOMAIN files) = 3
    /\ Cardinality(DOMAIN index) = 2

\* C20 as stated: when the process stops at a step boundary inside compact
\* and the directory is opened again, open succeeds and every key reads as
\* it did right before the compaction began.
C20_CrashInsideCompactionKeepsGet ==
    last.op = "recover" =>
        /\ opened
        /\ last.res = OkUnit
        /\ \A k \in Keys : GetRes(k) = atClose[k]

\* C11 as stated: a set that returned an error left the index entry of its
\* key as it was when set was called.
C11_FailedSetLeavesIndexEntry ==
    (pc = "failed" /\ last.op = "set" /\ last.res # OkUnit) =>
        /\ (last.key \in DOMAIN index) = (last.key \in DOMAIN prior)
        /\ last.key \in DOMAIN prior => index[last.key] = prior[last.key]

\* C12 as stated: after compact returned an error the writer is bound to
\* current_gen.log, every index entry names a generation with a reader and
\* a file, and every key last set reads as that value.
C12_ConsistentAfterFailedCompaction ==
    (pc = "failed" /\ last.compacted) =>
        /\ writer.gen = current_gen
        /\ \A k \in DOMAIN index :
              /\ index[k].gen \in DOMAIN readers
              /\ index[k].gen \in DOMAIN files
        /\ \A k \in Keys :
              lastMut[k].kind = "set" => GetRes(k) = OkSome(lastMut[k].val)

\* the Remove record of key is the last thing in the writer's file
RemoveRecordWritten(key, rec) ==
    /\ writer.gen \in DOMAIN files
    /\ writer.pos = Len(files[writer.gen])
    /\ writer.pos >= Len(rec)
    /\ ReadAt(files[writer.gen], writer.pos - Len(rec), Len(rec)) = rec

\* C13 as stated: a remove in which an I/O error occurred returns an error,
\* and a remove that returned Ok dropped the key with its Remove record in
\* the log file.
C13_RemoveSurfacesIoError ==
    /\ (pc = "failed" /\ last.op = "remove") => last.res # OkUnit
    /\ (last.op = "remove" /\ last.res = OkUnit) =>
          /\ last.key \notin DOMAIN index
          /\ RemoveRecordWritten(last.key, Encode(CommandRemove(last.key)))

====
